---- MODULE Spec2Model ----
(***************************************************************************)
(* Sqlite3Engine of mustang (src/mustang/engine/sqlite.py): the engine's   *)
(* connection lifecycle (init / close / destroy) and its CRUD primitives   *)
(* (get_instance / create_instance / update_instance / delete_instance)    *)
(* over one model, together with the behaviour of the sqlite3 driver the   *)
(* engine calls (parameter binding, constraints, rowid assignment).        *)
(***************************************************************************)
EXTENDS Integers, FiniteSets, Sequences, TLC

\* Highest rowid the store hands out (caps the AUTOINCREMENT counter).
MaxId == 2

(***************************************************************************)
(* Python values.  A value is a record [type, val]; val indexes the        *)
(* content inside its type.                                                *)
(*   str 1 = "a", str 2 = "b", str -d = the ISO text of datetime d         *)
(*   list 1 = ["x", "y"]                                                   *)
(*   bytes -k = pickle.dumps(list k); bytes k > 0 are raw bytes that are   *)
(*   no pickle                                                             *)
(***************************************************************************)
None == [type |-> "NoneType", val |-> 0]
PyInt(n) == [type |-> "int", val |-> n]
PyStr(n) == [type |-> "str", val |-> n]
PyBytes(n) == [type |-> "bytes", val |-> n]
PyList(n) == [type |-> "list", val |-> n]
PyDatetime(n) == [type |-> "datetime", val |-> n]

NoError == "none"

\* pickle.loads(value): the structured value a payload was dumped from, or
\* UnpicklingError for bytes that are no pickle.
pickle_loads(value) ==
    IF value.val < 0
    THEN [err |-> NoError, value |-> PyList(-value.val)]
    ELSE [err |-> "UnpicklingError", value |-> None]

\* The driver's parameter binding: None, int, str and bytes are bound as they
\* are, datetime goes through the default adapter (ISO text), any other type
\* is "not supported".
bind_parameter(value) ==
    CASE value.type \in {"NoneType", "int", "str", "bytes"} ->
            [err |-> NoError, value |-> value]
      [] value.type = "datetime" ->
            [err |-> NoError, value |-> PyStr(-value.val)]
      [] OTHER ->
            [err |-> "ProgrammingError", value |-> None]

(***************************************************************************)
(* The model the engine is used with:                                      *)
(*   Item(id: int primary key set by the database, name: str,              *)
(*        tags: list = None, created: datetime = None)                        *)
(***************************************************************************)
_fields == <<"id", "name", "tags", "created">>
FieldNames == {_fields[i] : i \in 1..Len(_fields)}
field_type == [id |-> "int", name |-> "str", tags |-> "list", created |-> "datetime"]
primary_key == "id"
set_by_database == {"id"}
has_default == {"tags", "created"}

\* SQL_TYPES.get(field.field_type, "BLOB")
SQL_TYPES(t) ==
    CASE t = "int" -> "INTEGER"
      [] t = "float" -> "REAL"
      [] t = "str" -> "TEXT"
      [] t = "bytes" -> "BLOB"
      [] t = "datetime" -> "TIMESTAMP"
      [] t = "date" -> "DATE"
      [] OTHER -> "BLOB"

\* The column definition create_table_for sends for a field.
sql_field(f) ==
    [type |-> SQL_TYPES(field_type[f]),
     primary |-> (f = primary_key),
     autoincrement |-> (f = primary_key /\ field_type[f] = "int"),
     not_null |-> (f \notin has_default)]

\* The table create_table_for creates.
create_table_schema == [f \in FieldNames |-> sql_field(f)]

(***************************************************************************)
(* State.                                                                  *)
(***************************************************************************)
VARIABLES
    file_name,   \* self.file_name: None, a path, or the rejected argument
    memory,      \* self.memory
    connection,  \* self.connection: "None", "open" or "closed"
    cursor,      \* self.cursor: "None" or "cursor"
    target,      \* the database the connection is attached to
    table,       \* whether the model's table exists in that database
    rows,        \* the rows of the table, as the connection sees them
    seq,         \* sqlite_sequence: the largest rowid ever inserted
    lastrowid,   \* cursor.lastrowid
    fs,          \* the database files on disk
    instance,    \* the model instance the caller holds (or NoInstance)
    last         \* the most recent call: op, args, err (error raised), ret

vars == <<file_name, memory, connection, cursor, target, table, rows, seq,
          lastrowid, fs, instance, last>>

engine == <<file_name, memory, connection, cursor>>
store == <<target, table, rows, seq, lastrowid>>

\* Paths a caller passes to init, and arguments that are no path.
Paths == {"a.db", "b.db"}
NoPath == "None"
NotAPath == "int"
FileNames == Paths \cup {NoPath, NotAPath}

NoInstance == [_is_deleted |-> FALSE, fields |-> <<>>]
NoArgs == <<>>

Call(op, args, err, ret) == [op |-> op, args |-> args, err |-> err, ret |-> ret]

\* Sqlite3Engine.__init__ (and BaseEngine.__init__: no connection, no cursor),
\* in a directory holding no database file.
Init ==
    /\ file_name = NoPath
    /\ memory = FALSE
    /\ connection = "None"
    /\ cursor = "None"
    /\ target = "None"
    /\ table = FALSE
    /\ rows = {}
    /\ seq = 0
    /\ lastrowid = 0
    /\ fs = [p \in Paths |-> "absent"]
    /\ instance = NoInstance
    /\ last = Call("__init__", NoArgs, NoError, "None")

(***************************************************************************)
(* Lifecycle.                                                              *)
(***************************************************************************)
\* sqlite3.connect(sql_file_name): a fresh connection.  It sees what is
\* committed in the file: the table when a CREATE TABLE reached the file, no
\* rows (the engine never commits a write); ":memory:" is a new empty
\* database.  The file is created when missing.
connect(sql_file_name) ==
    /\ connection' = "open"
    /\ cursor' = "cursor"
    /\ target' = sql_file_name
    /\ table' = (sql_file_name \in Paths /\ fs[sql_file_name] = "table")
    /\ rows' = {}
    /\ seq' = 0
    /\ lastrowid' = 0
    /\ fs' = IF sql_file_name \in Paths /\ fs[sql_file_name] = "absent"
             THEN [fs EXCEPT ![sql_file_name] = "empty"]
             ELSE fs

\* init as it would be if a missing path fell back to a database in memory.
init_defaulting(fname, mem) ==
    /\ memory' = mem
    /\ IF mem \/ fname \notin Paths
       THEN /\ file_name' = IF mem THEN NoPath ELSE fname
            /\ connect(":memory:")
       ELSE /\ file_name' = fname
            /\ connect(fname)
    /\ last' = Call("init", [file_name |-> fname, memory |-> mem], NoError, "None")
    /\ UNCHANGED instance

\* init(file_name, memory)
init(fname, mem) ==
    /\ memory' = mem
    /\ IF mem
       THEN /\ file_name' = NoPath
            /\ connect(":memory:")
            /\ last' = Call("init", [file_name |-> fname, memory |-> mem],
                            NoError, "None")
       ELSE IF fname \in Paths
            THEN /\ file_name' = fname
                 /\ connect(fname)
                 /\ last' = Call("init", [file_name |-> fname, memory |-> mem],
                                 NoError, "None")
            ELSE \* the assert fails (without assertions, .absolute() does)
                 /\ file_name' = fname
                 /\ \E e \in {"AssertionError", "AttributeError"} :
                        last' = Call("init", [file_name |-> fname, memory |-> mem],
                                     e, "None")
                 /\ UNCHANGED <<connection, cursor, store, fs>>
    /\ UNCHANGED instance

\* connection.close(): the uncommitted rows are rolled back and the
\* connection shows no database any more.
connection_close ==
    /\ connection' = "closed"
    /\ table' = FALSE
    /\ rows' = {}
    /\ seq' = 0
    /\ UNCHANGED <<cursor, target, lastrowid>>

\* The body of close(): if self.connection: self.connection.close()
close_body ==
    IF connection # "None"
    THEN connection_close
    ELSE UNCHANGED <<connection, cursor, store>>

\* close as it would be without the test for a connection.
close_unguarded ==
    /\ IF connection # "None"
       THEN /\ connection_close
            /\ last' = Call("close", NoArgs, NoError, "None")
       ELSE /\ UNCHANGED <<connection, cursor, store>>
            /\ last' = Call("close", NoArgs, "AttributeError", "None")
    /\ UNCHANGED <<file_name, memory, fs, instance>>

\* close()
close ==
    /\ close_body
    /\ last' = Call("close", NoArgs, NoError, "None")
    /\ UNCHANGED <<file_name, memory, fs, instance>>

\* destroy as it would be if it only closed the connection.
destroy_keeps_file ==
    /\ close_body
    /\ last' = Call("destroy", NoArgs, NoError, "None")
    /\ UNCHANGED <<file_name, memory, fs, instance>>

\* destroy()
destroy ==
    /\ close_body
    /\ CASE file_name = NoPath ->
              /\ last' = Call("destroy", NoArgs, NoError, "None")
              /\ UNCHANGED fs
         [] file_name = NotAPath ->
              /\ last' = Call("destroy", NoArgs, "AttributeError", "None")
              /\ UNCHANGED fs
         [] OTHER ->
              IF fs[file_name] = "absent"
              THEN /\ last' = Call("destroy", NoArgs, "FileNotFoundError", "None")
                   /\ UNCHANGED fs
              ELSE /\ last' = Call("destroy", NoArgs, NoError, "None")
                   /\ fs' = [fs EXCEPT ![file_name] = "absent"]
    /\ UNCHANGED <<file_name, memory, instance>>

\* Lifecycle calls only.
InitArgs == FileNames \X BOOLEAN

NextLife ==
    \/ \E a \in InitArgs : init(a[1], a[2])
    \/ close
    \/ destroy

SpecLife == Init /\ [][NextLife]_vars

(***************************************************************************)
(* The sqlite3 driver: cursor.execute(query, parameters).                  *)
(***************************************************************************)
\* What execute raises before it looks at the parameters: there is no cursor
\* (AttributeError on None), the connection is closed, the statement does not
\* parse (no column or filter in it) or names a table that does not exist.
statement_error(cur, conn, tab, parses) ==
    CASE cur = "None" -> "AttributeError"
      [] conn = "closed" -> "ProgrammingError"
      [] ~parses -> "OperationalError"
      [] ~tab -> "OperationalError"
      [] OTHER -> NoError

\* Binding every parameter of a field -> value map.
bind_error(params) ==
    IF \E f \in DOMAIN params : bind_parameter(params[f]).err # NoError
    THEN "ProgrammingError"
    ELSE NoError

bind_all(params) == [f \in DOMAIN params |-> bind_parameter(params[f]).value]

\* column = ? in a WHERE clause: NULL equals nothing.
sql_equal(stored, param) == stored # None /\ param # None /\ stored = param

MaxOf(S) == IF S = {} THEN 0 ELSE CHOOSE n \in S : \A m \in S : m <= n

\* The rowid an INSERT without id gets under AUTOINCREMENT.
next_rowid(rws, sq) == MaxOf({sq} \cup {r.id.val : r \in rws}) + 1

\* A row violates NOT NULL (the INTEGER PRIMARY KEY holds a rowid, never NULL).
not_null_violation(row) ==
    \E f \in FieldNames \ {primary_key} :
        create_table_schema[f].not_null /\ row[f] = None

\* INSERT INTO item (fields) VALUES (?...) with bound parameters: the new
\* row, or the constraint it violates.
sql_insert(rws, sq, params) ==
    LET given == primary_key \in DOMAIN params /\ params[primary_key] # None
        rowid == IF given THEN params[primary_key] ELSE PyInt(next_rowid(rws, sq))
        row == [f \in FieldNames |->
                   IF f = primary_key THEN rowid
                   ELSE IF f \in DOMAIN params THEN params[f] ELSE None]
    IN  CASE rowid.type # "int" -> [err |-> "IntegrityError", row |-> row]
          [] \E r \in rws : r.id = rowid -> [err |-> "IntegrityError", row |-> row]
          [] not_null_violation(row) -> [err |-> "IntegrityError", row |-> row]
          [] OTHER -> [err |-> NoError, row |-> row]

\* UPDATE item SET field=? WHERE id=? with bound parameters: the rows after
\* it, or the constraint it violates.  No row matching is no error.
sql_update(rws, field, value, id_value) ==
    LET hit == {r \in rws : sql_equal(r[primary_key], id_value)}
        new == {[r EXCEPT ![field] = value] : r \in hit}
        after == (rws \ hit) \cup new
    IN  CASE hit = {} -> [err |-> NoError, rows |-> rws]
          [] field = primary_key /\ value.type # "int" ->
                [err |-> "IntegrityError", rows |-> rws]
          [] field = primary_key /\ \E r \in rws \ hit : r.id = value ->
                [err |-> "IntegrityError", rows |-> rws]
          [] \E r \in new : not_null_violation(r) ->
                [err |-> "IntegrityError", rows |-> rws]
          [] OTHER -> [err |-> NoError, rows |-> after]

\* DELETE as it would be with a WHERE clause on the wrong side of the test.
sql_delete_others(rws, id_value) == {r \in rws : sql_equal(r[primary_key], id_value)}

\* DELETE FROM item WHERE id=? with the bound parameter.
sql_delete(rws, id_value) == {r \in rws : ~sql_equal(r[primary_key], id_value)}

\* SELECT ... WHERE f1=? AND f2=? ... with bound parameters.
sql_select(rws, params) ==
    {r \in rws : \A f \in DOMAIN params : sql_equal(r[f], params[f])}

\* fetchall()[0]: the table is scanned in rowid order.
first_row(found) == CHOOSE r \in found : \A q \in found : r.id.val <= q.id.val

(***************************************************************************)
(* The engine's CRUD primitives.                                           *)
(***************************************************************************)
\* model(**instance_data): a fresh instance, not deleted.
Model(instance_data) == [_is_deleted |-> FALSE, fields |-> instance_data]

\* get_instance's conversion of one SQL value: bytes in a field whose type
\* is not bytes are unpickled.
to_python(f, value) ==
    IF value.type = "bytes" /\ field_type[f] # "bytes"
    THEN pickle_loads(value)
    ELSE [err |-> NoError, value |-> value]

NotFound(err) == [err |-> err, found |-> FALSE, instance |-> NoInstance]

\* What get_instance(model, filters) raises or returns on a connection in
\* the given state.
get_instance_result(cur, conn, tab, rws, filters) ==
    LET e1 == statement_error(cur, conn, tab, DOMAIN filters # {})
        e2 == bind_error(filters)
        found == sql_select(rws, bind_all(filters))
        row == first_row(found)
        data == [f \in FieldNames |-> to_python(f, row[f])]
    IN  CASE e1 # NoError -> NotFound(e1)
          [] e2 # NoError -> NotFound(e2)
          [] Cardinality(found) = 0 \/ Cardinality(found) < 1 -> NotFound(NoError)
          [] \E f \in FieldNames : data[f].err # NoError ->
                NotFound("UnpicklingError")
          [] OTHER ->
                [err |-> NoError, found |-> TRUE,
                 instance |-> Model([f \in FieldNames |-> data[f].value])]

\* get_instance(model, fields); the caller keeps the instance returned.
get_instance(filters) ==
    LET res == get_instance_result(cursor, connection, table, rows, filters)
    IN  /\ last' = Call("get_instance", filters, res.err,
                        IF res.found THEN "instance" ELSE "None")
        /\ instance' = IF res.found THEN res.instance ELSE instance
        /\ UNCHANGED <<engine, store, fs>>

\* The instance create_instance builds after the INSERT.
created_instance(fields, rowid) ==
    Model([f \in FieldNames |->
              IF f \in set_by_database THEN PyInt(rowid)
              ELSE IF f \in DOMAIN fields THEN fields[f] ELSE None])

\* create_instance(model, fields); the caller keeps the instance returned.
create_instance(fields) ==
    LET e1 == statement_error(cursor, connection, table, DOMAIN fields # {})
        e2 == bind_error(fields)
        ins == sql_insert(rows, seq, bind_all(fields))
        err == IF e1 # NoError THEN e1 ELSE IF e2 # NoError THEN e2 ELSE ins.err
    IN  IF err # NoError
        THEN /\ last' = Call("create_instance", fields, err, "None")
             /\ UNCHANGED <<engine, store, fs, instance>>
        ELSE /\ ins.row.id.val <= MaxId
             /\ rows' = rows \cup {ins.row}
             /\ seq' = MaxOf({seq, ins.row.id.val})
             /\ lastrowid' = ins.row.id.val
             /\ instance' = created_instance(fields, lastrowid')
             /\ last' = Call("create_instance", fields, NoError, "instance")
             /\ UNCHANGED <<engine, target, table, fs>>

\* update_instance(instance, field, value) on the instance the caller holds.
\* The value is set on the instance with _has_init off, as a plain attribute.
update_instance(field, value) ==
    LET id_value == instance.fields[primary_key]
        params == [value |-> value, id |-> id_value]
        e1 == statement_error(cursor, connection, table, TRUE)
        e2 == bind_error(params)
        upd == sql_update(rows, field, bind_all(params).value, bind_all(params).id)
        err == IF e1 # NoError THEN e1 ELSE IF e2 # NoError THEN e2 ELSE upd.err
    IN  /\ instance # NoInstance
        /\ last' = Call("update_instance", [field |-> field, value |-> value],
                        err, "None")
        /\ IF err # NoError
           THEN UNCHANGED <<rows, instance>>
           ELSE /\ rows' = upd.rows
                /\ instance' = [instance EXCEPT !.fields[field] = value]
        /\ UNCHANGED <<engine, target, table, seq, lastrowid, fs>>

\* delete_instance as it would be if it marked the instance before the DELETE.
delete_instance_marks_first ==
    LET id_value == instance.fields[primary_key]
        params == [id |-> id_value]
        e1 == statement_error(cursor, connection, table, TRUE)
        e2 == bind_error(params)
        err == IF e1 # NoError THEN e1 ELSE e2
    IN  /\ instance # NoInstance
        /\ last' = Call("delete_instance", NoArgs, err, "None")
        /\ instance' = [instance EXCEPT !._is_deleted = TRUE]
        /\ IF err # NoError
           THEN UNCHANGED rows
           ELSE rows' = sql_delete(rows, bind_all(params).id)
        /\ UNCHANGED <<engine, target, table, seq, lastrowid, fs>>

\* delete_instance(instance) on the instance the caller holds.
delete_instance ==
    LET id_value == instance.fields[primary_key]
        params == [id |-> id_value]
        e1 == statement_error(cursor, connection, table, TRUE)
        e2 == bind_error(params)
        err == IF e1 # NoError THEN e1 ELSE e2
    IN  /\ instance # NoInstance
        /\ last' = Call("delete_instance", NoArgs, err, "None")
        /\ IF err # NoError
           THEN UNCHANGED <<rows, instance>>
           ELSE /\ rows' = sql_delete(rows, bind_all(params).id)
                /\ instance' = [instance EXCEPT !._is_deleted = TRUE]
        /\ UNCHANGED <<engine, target, table, seq, lastrowid, fs>>

\* create_table_for(model): CREATE TABLE IF NOT EXISTS, which reaches the
\* file at once (no write is pending while the table does not exist).
create_table_for ==
    LET err == statement_error(cursor, connection, TRUE, TRUE)
    IN  /\ last' = Call("create_table_for", NoArgs, err, "None")
        /\ IF err # NoError
           THEN UNCHANGED <<table, fs>>
           ELSE /\ table' = TRUE
                /\ fs' = IF target \in Paths
                         THEN [fs EXCEPT ![target] = "table"]
                         ELSE fs
        /\ UNCHANGED <<engine, target, rows, seq, lastrowid, instance>>

(***************************************************************************)
(* The calls a caller makes.                                               *)
(***************************************************************************)
IdValues == {PyInt(n) : n \in 1..MaxId}
NameValues == {PyStr(1), PyStr(2)}
ListValues == {PyList(1)}
PickleValues == {PyBytes(-1)}
CreatedValues == {PyDatetime(1)}

\* Values of each field's declared type: what a caller passes when the
\* instance has filtered the value ("supposed to have been filtered and
\* allowed by the instance").
TypedValues ==
    [id |-> IdValues, name |-> NameValues, tags |-> ListValues,
     created |-> CreatedValues]

\* Values of whatever type: the list field is also given pickled bytes.
AnyValues == [TypedValues EXCEPT !.tags = ListValues \cup PickleValues]

\* Field -> value maps over a set of fields, each value drawn from V[field].
MapsOver(names, V) ==
    {m \in UNION {[D -> UNION {V[f] : f \in names}] : D \in SUBSET names} :
        \A f \in DOMAIN m : m[f] \in V[f]}

\* create_instance's field maps: the id is left to the database.
CreateFields(V) == MapsOver(FieldNames \ set_by_database, V)

\* get_instance's filters: none, one field, or a conjunction of two.
FilterShapes ==
    {{}, {"id"}, {"name"}, {"tags"}, {"created"}, {"name", "created"}}
Filters(V) == {m \in MapsOver(FieldNames, V) : DOMAIN m \in FilterShapes}

\* update_instance's (field, value) pairs; None is a value too.
Updates(V) ==
    UNION {{<<f, v>> : v \in V[f] \cup {None}} : f \in FieldNames}

\* The engine of a database kept in memory.
CrudInitArgs == {<<NoPath, TRUE>>}

\* The calls of a caller who passes values drawn from V.
Calls(V) ==
    \/ \E a \in CrudInitArgs : init(a[1], a[2])
    \/ close
    \/ create_table_for
    \/ \E filters \in Filters(V) : get_instance(filters)
    \/ \E fields \in CreateFields(V) : create_instance(fields)
    \/ \E u \in Updates(V) : update_instance(u[1], u[2])
    \/ delete_instance

\* A caller who passes values of whatever type.
Next == Calls(AnyValues)

Spec == Init /\ [][Next]_vars

\* A caller who passes values of each field's declared type.
NextTyped == Calls(TypedValues)

SpecTyped == Init /\ [][NextTyped]_vars

(***************************************************************************)
(* Lifecycle properties (SpecLife).                                        *)
(***************************************************************************)
\* The most recent call was init with memory off and no usable path.
InvalidInit(call) ==
    /\ call.op = "init"
    /\ ~call.args.memory
    /\ call.args.file_name \notin Paths

InitOk(call) == call.op = "init" /\ call.err = NoError

\* C7 as stated: init with memory mode off and no valid path (absent, or
\* neither a string nor a path) fails with an error, and the engine is left
\* not open.
C7_InvalidInitLeavesNotOpen ==
    InvalidInit(last) => (last.err # NoError /\ connection # "open")

\* C7 amended: init with memory mode off and no valid path fails with an
\* error and opens nothing: the connection, the cursor, the database and the
\* files are as they were before the call, so an engine that was not open is
\* left not open and a connection opened by an earlier init stays open.
C7_InvalidInitOpensNothing ==
    [][InvalidInit(last') =>
          /\ last'.err # NoError
          /\ connection' = connection
          /\ cursor' = cursor
          /\ UNCHANGED <<store, fs>>
          /\ (connection # "open" => connection' # "open")]_vars

\* An init without a usable path has failed on an engine that was open.
C7_Witness ==
    /\ InvalidInit(last)
    /\ last.err = "AssertionError"
    /\ last.args.file_name = NoPath
    /\ connection = "open"

C9_OpenIffLastCallInitOk == (connection = "open") <=> InitOk(last)

\* C9 amended: a successful init leaves the connection open, a failed init
\* leaves it as it was, close and destroy leave it closed when there was one
\* and absent otherwise (so the connection is open exactly when the most
\* recent lifecycle call other than a failed init was a successful init);
\* close raises no error, whether or not a connection exists or is already
\* closed, and changes neither the recorded file name nor the memory flag.
C9_ConnectionLifecycle ==
    /\ connection # "open"
    /\ [][/\ InitOk(last') => connection' = "open"
          /\ (last'.op = "init" /\ last'.err # NoError) => connection' = connection
          /\ last'.op \in {"close", "destroy"} =>
                connection' = IF connection = "None" THEN "None" ELSE "closed"
          /\ last'.op = "close" =>
                /\ last'.err = NoError
                /\ file_name' = file_name
                /\ memory' = memory]_vars

\* close() was called on an engine that never had a connection.
C9_Witness ==
    /\ last.op = "close"
    /\ last.err = NoError
    /\ connection = "None"

(***************************************************************************)
(* CRUD properties (Spec, SpecPlain).                                      *)
(***************************************************************************)
\* find_one(model, {primary key: pk}) on the connection as it is / as it is
\* after the step.
FindByKey(pk) ==
    get_instance_result(cursor, connection, table, rows,
                        [f \in {primary_key} |-> pk])

FindByKeyAfter(pk) ==
    get_instance_result(cursor', connection', table', rows',
                        [f \in {primary_key} |-> pk])

Succeeded(call, op) == call.op = op /\ call.err = NoError

\* The field types the store represents natively (the keys of SQL_TYPES).
NativeTypes == {"int", "float", "str", "bytes", "datetime", "date"}

\* C1: after create(M, fields), find_one on the returned instance's primary
\* key returns an instance that has, for every field supplied, the value
\* supplied, and for every store-generated field the identity the store
\* assigned to the row, which the instance returned by create carries too.
C1_CreateThenFindReturnsSupplied ==
    Succeeded(last, "create_instance") =>
        LET res == FindByKey(instance.fields[primary_key])
        IN  /\ res.err = NoError
            /\ res.found
            /\ \A f \in FieldNames :
                  IF f \in set_by_database
                  THEN /\ instance.fields[f] = PyInt(lastrowid)
                       /\ res.instance.fields[f] = PyInt(lastrowid)
                  ELSE f \in DOMAIN last.args =>
                          res.instance.fields[f] = last.args[f]

\* C2: after update(instance, f, v) on a stored instance, find_one on the
\* instance's primary key returns v for f and, for every other field, what
\* it returned before the update; every other row is unchanged and the
\* instance's attribute f is v.
C2_UpdateThenFindReturnsValue ==
    [][(/\ Succeeded(last', "update_instance")
        /\ FindByKey(instance.fields[primary_key]).found) =>
          LET f == last'.args.field
              before == FindByKey(instance.fields[primary_key]).instance
              after == FindByKeyAfter(instance'.fields[primary_key])
          IN  /\ after.err = NoError
              /\ after.found
              /\ after.instance.fields[f] = last'.args.value
              /\ \A g \in FieldNames \ {f} :
                    after.instance.fields[g] = before.fields[g]
              /\ \A r \in rows :
                    r[primary_key] # instance.fields[primary_key] => r \in rows'
              /\ Cardinality(rows') = Cardinality(rows)
              /\ instance'.fields[f] = last'.args.value]_vars

\* C3: after delete(instance), find_one on the instance's primary key
\* returns no match, the instance's deletion flag is true, and every row
\* with another primary key is still there, unchanged.
C3_DeleteThenFindReturnsNone ==
    [][Succeeded(last', "delete_instance") =>
          LET pk == instance.fields[primary_key]
              after == FindByKeyAfter(pk)
          IN  /\ after.err = NoError
              /\ ~after.found
              /\ instance'._is_deleted
              /\ \A r \in rows : r[primary_key] # pk => r \in rows'
              /\ rows' \subseteq rows]_vars

\* delete has removed the row of its instance and another row is still there.
C3_Witness ==
    /\ Succeeded(last, "delete_instance")
    /\ instance._is_deleted
    /\ instance.fields[primary_key].val <= seq
    /\ rows # {}
    /\ \A r \in rows : r[primary_key] # instance.fields[primary_key]

\* The value the last create or update wrote for field f, if it wrote one.
Wrote(call, f) ==
    \/ Succeeded(call, "create_instance") /\ f \in DOMAIN call.args
    \/ Succeeded(call, "update_instance") /\ call.args.field = f

Written(call, f) ==
    IF call.op = "create_instance" THEN call.args[f] ELSE call.args.value

\* C4: a value written through create or update for a field whose type the
\* store does not represent natively reads back, through find_one, equal to
\* the value written.
C4_OpaqueValueRoundTrips ==
    \A f \in FieldNames :
        (/\ field_type[f] \notin NativeTypes
         /\ Wrote(last, f)
         /\ FindByKey(instance.fields[primary_key]).found) =>
            FindByKey(instance.fields[primary_key]).instance.fields[f]
                = Written(last, f)

\* The rows the store finds for the filters of a get_instance call.
Matching(call) == sql_select(rows, bind_all(call.args))

\* C5: find_one returns no match when no row satisfies the filters, and
\* otherwise the hydration of the first row found; the instance returned
\* satisfies every filter given.
C5_FindOneFirstMatch ==
    Succeeded(last, "get_instance") =>
        /\ Matching(last) = {} => last.ret = "None"
        /\ Matching(last) # {} =>
              /\ last.ret = "instance"
              /\ instance.fields[primary_key] = first_row(Matching(last)).id
              /\ \A f \in DOMAIN last.args : instance.fields[f] = last.args[f]

\* C6: get_instance returns an instance only when exactly one row matches
\* the fields; when several rows match it returns None.
C6_SeveralMatchesReturnNone ==
    Succeeded(last, "get_instance") =>
        (last.ret = "instance" <=> Cardinality(Matching(last)) = 1)

\* C10: when the store rejects the statement of update or delete, the
\* instance is as before the call (update has not assigned the value, delete
\* has not set the deletion flag) and so are the rows; an instance's deletion
\* flag becomes true only in a delete whose DELETE the store accepted, after
\* which no row has the instance's primary key.
C10_RejectedWriteLeavesInstance ==
    [][/\ (last'.op \in {"update_instance", "delete_instance"}
           /\ last'.err # NoError) =>
              (instance' = instance /\ rows' = rows)
       /\ (instance'._is_deleted /\ ~instance._is_deleted) =>
              /\ Succeeded(last', "delete_instance")
              /\ statement_error(cursor, connection, table, TRUE) = NoError
              /\ \A r \in rows' :
                    r[primary_key] # instance'.fields[primary_key]]_vars

\* The store has rejected an update (a constraint) and the instance still
\* holds a value.
C10_Witness ==
    /\ last.op = "update_instance"
    /\ last.err = "IntegrityError"
    /\ instance # NoInstance
    /\ ~instance._is_deleted

====
